---------------------------- MODULE Spec2Model ----------------------------
(***************************************************************************)
(* Streaming generation task manager of routes/chat.py:                    *)
(*   - the registry _generation_tasks and its lock,                        *)
(*   - the generation worker thread (_generation_worker) and its delayed   *)
(*     cleanup thread,                                                     *)
(*   - start_generation_task,                                              *)
(*   - the two subscription generators of stream_message (gen_new and      *)
(*     gen_subscribe),                                                     *)
(*   - abort_stream_generation.                                            *)
(* Every step that touches shared state (the registry, a task's queue, a   *)
(* task's flags, a ChatMessage row) is one action; thread-local steps are  *)
(* folded into the shared step that follows them.                          *)
(***************************************************************************)
EXTENDS Naturals, Sequences, FiniteSets

(* ------------------------------ bounds -------------------------------- *)
\* number of assistant messages (response identities) that can be created
MaxMsgs == 1
\* number of subscription requests (calls of stream_message)
MaxSubs == 2
\* number of chat sessions (conversations) of the current user
MaxSessions == 1
\* number of non-empty increments the backend yields at most
MaxChunks == 2
\* capacity of a task's queue; it stands for queue.Queue(maxsize=1000)
QueueMaxSize == 2
\* number of accepted abort requests per task
MaxCancels == 1
\* number of repeated start_generation_task calls per existing task
MaxRestarts == 2
\* the largest last_seq a resuming client sends
MaxLastSeq == 1
\* number of empty increments the backend yields at most
MaxEmpties == 1
\* number of tasks in the registry when the target of an abort is picked
MaxPickTasks == 3

MsgIds == 1..MaxMsgs
Subs == 1..MaxSubs
Sessions == 1..MaxSessions

(* ------------------------------- texts -------------------------------- *)
\* the texts the backend yields for the 1st, 2nd, ... non-empty increment
ChunkTexts == <<"Hel", "lo", "!", "?">>

ChunkText(i) == IF i <= Len(ChunkTexts) THEN ChunkTexts[i] ELSE "+"

\* f"Ошибка: {str(e)}", the increment stream_response_with_rag yields when
\* the model's stream raises
ErrorText == "Error: e"

\* "\n\n(Генерация прервана пользователем)"
CancelMarker == "\n\n(Generation aborted by user)"

\* ''.join(accumulated)
RECURSIVE Join(_)
Join(acc) == IF acc = <<>> THEN "" ELSE Head(acc) \o Join(Tail(acc))

(* ------------------------------- state -------------------------------- *)
VARIABLES
    generation_tasks,   \* the keys of _generation_tasks
    task,               \* the task dict of each message id (it outlives its key)
    lock,               \* _generation_tasks_lock: who holds it
    db,                 \* the ChatMessage rows of the assistant messages
    nextId,             \* the next autoincrement ChatMessage id
    clock,              \* datetime.utcnow(), as a count of starts
    worker,             \* each worker thread: position and locals (sawCancel
                        \* is history: the worker took its cancel path;
                        \* empties is history: the empty increments skipped;
                        \* commitFailed is history: a commit has raised)
    sub,                \* each stream_message request: position and locals
                        \* (lateLookup is history: the task had been evicted
                        \* when the request looked it up)
    threadsStarted,     \* history: worker threads started per message id
    backendCalls,       \* history: calls of stream_response_with_rag per id
    chanLog,            \* history: every item ever put on a task's queue
    startRet,           \* history: what the last start_generation_task returned
    restarts,           \* history: repeated start calls per message id
    cancels,            \* history: accepted abort requests per message id
    cancelView,         \* history: who was blocked on the queue at an abort
    cancelEarly,        \* history: the worker was still in its loop at the abort
    abortRet,           \* history: the answer of the last abort request
    seqAtCancel         \* history: the worker's seq when the flag was set

vars == <<generation_tasks, task, lock, db, nextId, clock, worker, sub,
          threadsStarted, backendCalls, chanLog, startRet, restarts, cancels,
          cancelView, cancelEarly, abortRet, seqAtCancel>>

progVars == <<generation_tasks, task, lock, db, nextId, clock, worker, sub>>

NoTask == [queue |-> <<>>, done |-> FALSE, chat_session_id |-> 0,
           started_at |-> 0, last_seq |-> 0, cancelled |-> FALSE]

NoRow == [exists |-> FALSE, session_id |-> 0, content |-> ""]

NoWorker == [pc |-> "none", seq |-> 0, accumulated |-> <<>>, backend |-> "running",
             sawCancel |-> FALSE, empties |-> 0, commitFailed |-> FALSE]

NoSub == [pc |-> "idle", kind |-> "none", mid |-> 0, chat_session |-> 0,
          hasTask |-> FALSE, content |-> "", client_last_seq |-> 0,
          events |-> <<>>, lateLookup |-> FALSE]

LockFree == lock.holder = "none"

\* no abort request has been answered yet
NoAnswer == [status |-> 0, assistant_message_id |-> 0]

Init ==
    /\ generation_tasks = {}
    /\ task = [m \in MsgIds |-> NoTask]
    /\ lock = [holder |-> "none", mid |-> 0]
    /\ db = [m \in MsgIds |-> NoRow]
    /\ nextId = 1
    /\ clock = 1
    /\ worker = [m \in MsgIds |-> NoWorker]
    /\ sub = [s \in Subs |-> NoSub]
    /\ threadsStarted = [m \in MsgIds |-> 0]
    /\ backendCalls = [m \in MsgIds |-> 0]
    /\ chanLog = [m \in MsgIds |-> <<>>]
    /\ startRet = [mid |-> 0, rec |-> NoTask]
    /\ restarts = [m \in MsgIds |-> 0]
    /\ cancels = [m \in MsgIds |-> 0]
    /\ cancelView = [m \in MsgIds |-> {}]
    /\ cancelEarly = [m \in MsgIds |-> FALSE]
    /\ abortRet = NoAnswer
    /\ seqAtCancel = [m \in MsgIds |-> 0]


(* --------------------------- queue and store --------------------------- *)
\* queue.Queue.full()
QueueFull(q) == Len(q) >= QueueMaxSize

\* q.put_nowait(item) / q.put(item, timeout=1.0): the queue afterwards; a put
\* on a full queue raises queue.Full and leaves the queue as it is
QueuePut(q, item) == IF QueueFull(q) THEN q ELSE Append(q, item)

\* the record of what went onto a queue
Logged(log, q, item) == IF QueueFull(q) THEN log ELSE Append(log, item)

\* {'chunk': chunk_text, 'seq': seq}
ChunkItem(text, n) == [chunk |-> text, seq |-> n]

\* the normal terminal item with the cancelled key of the cancel path
DoneItemMarkedCancelled(n) == [done |-> TRUE, final_seq |-> n, cancelled |-> TRUE]

\* {'done': True, 'final_seq': seq}
DoneItem(n) == [done |-> TRUE, final_seq |-> n]

\* {'done': True, 'final_seq': seq, 'cancelled': True}
CancelledItem(n) == [done |-> TRUE, final_seq |-> n, cancelled |-> TRUE]

IsChunk(item) == "seq" \in DOMAIN item

IsDone(item) == ~IsChunk(item) /\ "done" \in DOMAIN item

\* msg.content = text; db_sess.add(msg); db_sess.commit(), which either
\* commits or raises (the exception is logged and swallowed)
Commit(rows, m, text, ok) ==
    IF ok /\ rows[m].exists THEN [rows EXCEPT ![m].content = text] ELSE rows

(* ------------------------------- worker -------------------------------- *)
\* the thread starts and calls chat_service.stream_response_with_rag
WorkerBegin(m) ==
    /\ worker[m].pc = "start"
    /\ worker' = [worker EXCEPT ![m].pc = "iter"]
    /\ backendCalls' = [backendCalls EXCEPT ![m] = @ + 1]
    /\ UNCHANGED <<cancelView, cancelEarly, abortRet, seqAtCancel>>
    /\ UNCHANGED <<generation_tasks, task, lock, db, nextId, clock, sub,
                   threadsStarted, chanLog, startRet, restarts, cancels>>

\* the loop body without "if chunk_text == '': continue"
TakeIncrementNoSkip(w, text) ==
    [w EXCEPT !.seq = @ + 1,
              !.accumulated = Append(@, text),
              !.pc = "persist",
              !.empties = IF text = "" THEN @ + 1 ELSE @]

\* what the loop body does with one increment up to the persist step:
\* an empty one is skipped, any other gets the next seq and is accumulated
TakeIncrement(w, text) ==
    IF text = "" THEN [w EXCEPT !.empties = @ + 1]
    ELSE [w EXCEPT !.seq = @ + 1,
                   !.accumulated = Append(@, text),
                   !.pc = "persist"]

\* the backend yields one increment
WorkerYields(m, text) ==
    /\ worker[m].pc = "iter"
    /\ worker[m].backend = "running"
    /\ IF text = "" THEN worker[m].empties < MaxEmpties
                    ELSE worker[m].seq < MaxChunks
    /\ worker' = [worker EXCEPT ![m] = TakeIncrement(@, text)]
    /\ UNCHANGED <<generation_tasks, task, lock, db, nextId, clock, sub,
                   threadsStarted, backendCalls, chanLog, startRet, restarts,
                   cancels, cancelView, cancelEarly, abortRet, seqAtCancel>>

\* the backend yields its next non-empty increment
WorkerIncrement(m) == WorkerYields(m, ChunkText(worker[m].seq + 1))

\* the backend yields an empty increment (str(chunk or '') is '')
WorkerEmptyIncrement(m) == WorkerYields(m, "")

\* the model's stream raises: stream_response_with_rag yields the error text
\* as one more increment and returns
WorkerBackendError(m) ==
    /\ worker[m].pc = "iter"
    /\ worker[m].backend = "running"
    /\ worker[m].seq < MaxChunks
    /\ worker' = [worker EXCEPT ![m] = [TakeIncrement(@, ErrorText)
                                          EXCEPT !.backend = "failed"]]
    /\ UNCHANGED <<cancelView, cancelEarly, abortRet, seqAtCancel>>
    /\ UNCHANGED <<generation_tasks, task, lock, db, nextId, clock, sub,
                   threadsStarted, backendCalls, chanLog, startRet, restarts,
                   cancels>>

\* the stream is exhausted: the for loop ends
WorkerExhausted(m) ==
    /\ worker[m].pc = "iter"
    /\ worker' = [worker EXCEPT ![m].pc = "final_persist"]
    /\ UNCHANGED <<cancelView, cancelEarly, abortRet, seqAtCancel>>
    /\ UNCHANGED <<generation_tasks, task, lock, db, nextId, clock, sub,
                   threadsStarted, backendCalls, chanLog, startRet, restarts,
                   cancels>>

\* the worker after a commit attempt
AfterCommit(w, ok, next) == [w EXCEPT !.pc = next, !.commitFailed = @ \/ ~ok]

\* a progress save that adds the new chunk to the stored content
WorkerPersistAppends(m, ok) ==
    /\ worker[m].pc = "persist"
    /\ db' = Commit(db, m, db[m].content \o worker[m].accumulated[worker[m].seq], ok)
    /\ worker' = [worker EXCEPT ![m] = AfterCommit(@, ok, "publish")]
    /\ UNCHANGED <<generation_tasks, task, lock, nextId, clock, sub,
                   threadsStarted, backendCalls, chanLog, startRet, restarts,
                   cancels, cancelView, cancelEarly, abortRet, seqAtCancel>>

\* a loop without the progress save: the chunk goes to the queue unsaved
WorkerPersistSkipped(m, ok) ==
    /\ worker[m].pc = "persist"
    /\ worker' = [worker EXCEPT ![m] = AfterCommit(@, ok, "publish")]
    /\ UNCHANGED <<generation_tasks, task, lock, db, nextId, clock, sub,
                   threadsStarted, backendCalls, chanLog, startRet, restarts,
                   cancels, cancelView, cancelEarly, abortRet, seqAtCancel>>

\* the progress save of one chunk
WorkerPersistChunk(m, ok) ==
    /\ worker[m].pc = "persist"
    /\ db' = Commit(db, m, Join(worker[m].accumulated), ok)
    /\ worker' = [worker EXCEPT ![m] = AfterCommit(@, ok, "publish")]
    /\ UNCHANGED <<cancelView, cancelEarly, abortRet, seqAtCancel>>
    /\ UNCHANGED <<generation_tasks, task, lock, nextId, clock, sub,
                   threadsStarted, backendCalls, chanLog, startRet, restarts,
                   cancels>>

\* a publish that makes room on a full queue by discarding its oldest item
WorkerPublishEvicting(m) ==
    /\ worker[m].pc = "publish"
    /\ LET item == ChunkItem(worker[m].accumulated[worker[m].seq], worker[m].seq)
           q == task[m].queue
       IN /\ task' = [task EXCEPT ![m].queue =
                         IF QueueFull(q) THEN Append(Tail(q), item) ELSE Append(q, item)]
          /\ chanLog' = [chanLog EXCEPT ![m] = Append(@, item)]
    /\ worker' = [worker EXCEPT ![m].pc = "update"]
    /\ UNCHANGED <<generation_tasks, lock, db, nextId, clock, sub,
                   threadsStarted, backendCalls, startRet, restarts, cancels,
                   cancelView, cancelEarly, abortRet, seqAtCancel>>

\* out_queue.put_nowait({'chunk': chunk_text, 'seq': seq}); Full is logged
WorkerPublish(m) ==
    /\ worker[m].pc = "publish"
    /\ LET item == ChunkItem(worker[m].accumulated[worker[m].seq], worker[m].seq)
       IN /\ task' = [task EXCEPT ![m].queue = QueuePut(@, item)]
          /\ chanLog' = [chanLog EXCEPT ![m] = Logged(@, task[m].queue, item)]
    /\ worker' = [worker EXCEPT ![m].pc = "update"]
    /\ UNCHANGED <<cancelView, cancelEarly, abortRet, seqAtCancel>>
    /\ UNCHANGED <<generation_tasks, lock, db, nextId, clock, sub,
                   threadsStarted, backendCalls, startRet, restarts, cancels>>

\* a record that stores the sequence of the chunk before
WithLastSeqLagging(t, n) == [t EXCEPT !.last_seq = IF n > 0 THEN n - 1 ELSE 0]

\* the task dict after "task['last_seq'] = seq" for a registered task
WithLastSeq(t, n) == [t EXCEPT !.last_seq = n]

\* the last_seq update without the test of task['cancelled']
WorkerUpdateIgnoresCancel(m) ==
    /\ worker[m].pc = "update"
    /\ LockFree
    /\ task' = IF m \in generation_tasks
                 THEN [task EXCEPT ![m] = WithLastSeq(@, worker[m].seq)]
                 ELSE task
    /\ worker' = [worker EXCEPT ![m].pc = "iter"]
    /\ UNCHANGED <<generation_tasks, lock, db, nextId, clock, sub,
                   threadsStarted, backendCalls, chanLog, startRet, restarts,
                   cancels, cancelView, cancelEarly, abortRet, seqAtCancel>>

\* with _generation_tasks_lock: last_seq update and the cancelled check; a
\* cancelled worker keeps the lock for the rest of its cancel path
WorkerUpdateLastSeq(m) ==
    /\ worker[m].pc = "update"
    /\ LockFree
    /\ IF m \in generation_tasks
         THEN /\ task' = [task EXCEPT ![m] = WithLastSeq(@, worker[m].seq)]
              /\ IF task[m].cancelled
                   THEN /\ lock' = [holder |-> "worker", mid |-> m]
                        /\ worker' = [worker EXCEPT ![m].pc = "cancel_persist",
                                                    ![m].sawCancel = TRUE]
                   ELSE /\ worker' = [worker EXCEPT ![m].pc = "iter"]
                        /\ UNCHANGED lock
         ELSE /\ worker' = [worker EXCEPT ![m].pc = "iter"]
              /\ UNCHANGED <<task, lock>>
    /\ UNCHANGED <<cancelView, cancelEarly, abortRet, seqAtCancel>>
    /\ UNCHANGED <<generation_tasks, db, nextId, clock, sub, threadsStarted,
                   backendCalls, chanLog, startRet, restarts, cancels>>

\* the content written when the worker notices the cancellation
CancelledContent(acc) == Join(acc) \o CancelMarker

WorkerCancelPersist(m, ok) ==
    /\ worker[m].pc = "cancel_persist"
    /\ db' = Commit(db, m, CancelledContent(worker[m].accumulated), ok)
    /\ worker' = [worker EXCEPT ![m] = AfterCommit(@, ok, "cancel_put")]
    /\ UNCHANGED <<cancelView, cancelEarly, abortRet, seqAtCancel>>
    /\ UNCHANGED <<generation_tasks, task, lock, nextId, clock, sub,
                   threadsStarted, backendCalls, chanLog, startRet, restarts,
                   cancels>>

\* put_nowait of the terminal item; on Full the worker goes on to the put
\* with a timeout
WorkerPutDone(m, item, here, wait, after) ==
    /\ worker[m].pc = here
    /\ task' = [task EXCEPT ![m].queue = QueuePut(@, item)]
    /\ chanLog' = [chanLog EXCEPT ![m] = Logged(@, task[m].queue, item)]
    /\ worker' = [worker EXCEPT
                    ![m].pc = IF QueueFull(task[m].queue) THEN wait ELSE after]
    /\ UNCHANGED <<cancelView, cancelEarly, abortRet, seqAtCancel>>
    /\ UNCHANGED <<generation_tasks, lock, db, nextId, clock, sub,
                   threadsStarted, backendCalls, startRet, restarts, cancels>>

WorkerCancelPut(m) ==
    WorkerPutDone(m, CancelledItem(worker[m].seq),
                  "cancel_put", "cancel_put_wait", "cancel_exit")

\* out_queue.put(..., timeout=1.0): it goes through once there is room and
\* gives up (Full is swallowed) when the queue is still full at the timeout
WorkerCancelPutWait(m) ==
    WorkerPutDone(m, CancelledItem(worker[m].seq),
                  "cancel_put_wait", "cancel_exit", "cancel_exit")

\* a return of the cancel path that would bypass the finally block
WorkerCancelExitWithoutFinally(m) ==
    /\ worker[m].pc = "cancel_exit"
    /\ task' = [task EXCEPT ![m].done = TRUE]
    /\ lock' = [holder |-> "none", mid |-> 0]
    /\ worker' = [worker EXCEPT ![m].pc = "ended"]
    /\ UNCHANGED <<generation_tasks, db, nextId, clock, sub, threadsStarted,
                   backendCalls, chanLog, startRet, restarts, cancels,
                   cancelView, cancelEarly, abortRet, seqAtCancel>>

\* done_flag['done'] = True; return (the with block releases the lock)
WorkerCancelExit(m) ==
    /\ worker[m].pc = "cancel_exit"
    /\ task' = [task EXCEPT ![m].done = TRUE]
    /\ lock' = [holder |-> "none", mid |-> 0]
    /\ worker' = [worker EXCEPT ![m].pc = "finally"]
    /\ UNCHANGED <<cancelView, cancelEarly, abortRet, seqAtCancel>>
    /\ UNCHANGED <<generation_tasks, db, nextId, clock, sub, threadsStarted,
                   backendCalls, chanLog, startRet, restarts, cancels>>

\* the final save after the loop
WorkerFinalPersist(m, ok) ==
    /\ worker[m].pc = "final_persist"
    /\ db' = Commit(db, m, Join(worker[m].accumulated), ok)
    /\ worker' = [worker EXCEPT ![m] = AfterCommit(@, ok, "final_put")]
    /\ UNCHANGED <<cancelView, cancelEarly, abortRet, seqAtCancel>>
    /\ UNCHANGED <<generation_tasks, task, lock, nextId, clock, sub,
                   threadsStarted, backendCalls, chanLog, startRet, restarts,
                   cancels>>

WorkerFinalPut(m) ==
    WorkerPutDone(m, DoneItem(worker[m].seq),
                  "final_put", "final_put_wait", "final_update")

WorkerFinalPutWait(m) ==
    WorkerPutDone(m, DoneItem(worker[m].seq),
                  "final_put_wait", "final_update", "final_update")

\* with _generation_tasks_lock: the last last_seq update
WorkerFinalUpdate(m) ==
    /\ worker[m].pc = "final_update"
    /\ LockFree
    /\ task' = IF m \in generation_tasks
                 THEN [task EXCEPT ![m] = WithLastSeq(@, worker[m].seq)]
                 ELSE task
    /\ worker' = [worker EXCEPT ![m].pc = "finally"]
    /\ UNCHANGED <<cancelView, cancelEarly, abortRet, seqAtCancel>>
    /\ UNCHANGED <<generation_tasks, lock, db, nextId, clock, sub,
                   threadsStarted, backendCalls, chanLog, startRet, restarts,
                   cancels>>

\* finally: done_flag['done'] = True, and the cleanup thread is started
WorkerFinally(m) ==
    /\ worker[m].pc = "finally"
    /\ task' = [task EXCEPT ![m].done = TRUE]
    /\ worker' = [worker EXCEPT ![m].pc = "cleanup"]
    /\ UNCHANGED <<cancelView, cancelEarly, abortRet, seqAtCancel>>
    /\ UNCHANGED <<generation_tasks, lock, db, nextId, clock, sub,
                   threadsStarted, backendCalls, chanLog, startRet, restarts,
                   cancels>>

\* _delayed_cleanup: after the sleep, pop the key under the lock
DelayedCleanup(m) ==
    /\ worker[m].pc = "cleanup"
    /\ LockFree
    /\ generation_tasks' = generation_tasks \ {m}
    /\ worker' = [worker EXCEPT ![m].pc = "ended"]
    /\ UNCHANGED <<task, lock, db, nextId, clock, sub, threadsStarted,
                   backendCalls, chanLog, startRet, restarts, cancels,
                   cancelView, cancelEarly, abortRet, seqAtCancel>>

\* the steps of a worker whose backend and commits do not fail
Worker(m) ==
    \/ WorkerBegin(m)
    \/ WorkerIncrement(m)
    \/ WorkerExhausted(m)
    \/ WorkerPersistChunk(m, TRUE)
    \/ WorkerPublish(m)
    \/ WorkerUpdateLastSeq(m)
    \/ WorkerCancelPersist(m, TRUE)
    \/ WorkerCancelPut(m)
    \/ WorkerCancelPutWait(m)
    \/ WorkerCancelExit(m)
    \/ WorkerFinalPersist(m, TRUE)
    \/ WorkerFinalPut(m)
    \/ WorkerFinalPutWait(m)
    \/ WorkerFinalUpdate(m)
    \/ WorkerFinally(m)
    \/ DelayedCleanup(m)

\* the steps of a worker whose task is never cancelled
WorkerUncancelled(m) ==
    \/ WorkerBegin(m)
    \/ WorkerIncrement(m)
    \/ WorkerExhausted(m)
    \/ WorkerPersistChunk(m, TRUE)
    \/ WorkerPublish(m)
    \/ WorkerUpdateLastSeq(m)
    \/ WorkerFinalPersist(m, TRUE)
    \/ WorkerFinalPut(m)
    \/ WorkerFinalPutWait(m)
    \/ WorkerFinalUpdate(m)
    \/ WorkerFinally(m)
    \/ DelayedCleanup(m)

\* the worker steps with a commit that raises
PersistFails(m) ==
    \/ WorkerPersistChunk(m, FALSE)
    \/ WorkerCancelPersist(m, FALSE)
    \/ WorkerFinalPersist(m, FALSE)

(* ------------------------ start_generation_task ------------------------ *)
\* start_generation_task without its membership test
AlreadyRegisteredUnchecked(m) == FALSE

\* "if assistant_message_id in _generation_tasks"
AlreadyRegistered(m) == m \in generation_tasks

\* the dict start_generation_task stores for a new task
NewTask(c, now) == [queue |-> <<>>, done |-> FALSE, chat_session_id |-> c,
                    started_at |-> now, last_seq |-> 0, cancelled |-> FALSE]

\* start_generation_task, all of it under the lock: an existing record is
\* returned as it is; otherwise the record is stored and its thread started
StartGenerationTask(m, c) ==
    /\ LockFree
    /\ IF AlreadyRegistered(m)
         THEN UNCHANGED <<generation_tasks, task, worker, threadsStarted, clock>>
         ELSE /\ generation_tasks' = generation_tasks \cup {m}
              /\ task' = [task EXCEPT ![m] = NewTask(c, clock)]
              /\ worker' = [worker EXCEPT ![m] = [NoWorker EXCEPT !.pc = "start"]]
              /\ threadsStarted' = [threadsStarted EXCEPT ![m] = @ + 1]
              /\ clock' = clock + 1
    /\ startRet' = [mid |-> m, rec |-> task'[m]]

(* --------------------------- stream_message ---------------------------- *)
\* the first SSE event of a subscription
InitialEvent(m, content, n) ==
    [message_id |-> m, initial |-> TRUE, initial_chunk |-> content, last_seq |-> n]

\* the event a chunk item is forwarded as
ChunkEvent(m, item) == [message_id |-> m, chunk |-> item.chunk, seq |-> item.seq]

\* the terminal event of a subscription
DoneEvent(m, n) == [message_id |-> m, done |-> TRUE, final_seq |-> n]

\* int(item.get('final_seq', 0))
FinalSeqOf(item) == IF "final_seq" \in DOMAIN item THEN item.final_seq ELSE 0

\* the event a terminal item of the queue is forwarded as
ForwardDone(m, item) == DoneEvent(m, FinalSeqOf(item))

Emit(s, e) == [sub[s] EXCEPT !.events = Append(@, e)]

\* requests are numbered in the order they arrive
NextRequest(s) == sub[s].pc = "idle" /\ \A t \in Subs : t < s => sub[t].pc # "idle"

\* the assistant row stream_message adds for a new message (its id is fresh)
NewRow(c) == [exists |-> TRUE, session_id |-> c, content |-> ""]

\* { session_id, message }: the rows are added and start_generation_task is
\* called with the new id
StreamNew(s, c) ==
    /\ NextRequest(s)
    /\ nextId <= MaxMsgs
    /\ db' = [db EXCEPT ![nextId] = NewRow(c)]
    /\ nextId' = nextId + 1
    /\ StartGenerationTask(nextId, c)
    /\ sub' = [sub EXCEPT ![s] = [NoSub EXCEPT !.pc = "lookup", !.kind = "new",
                                              !.mid = nextId, !.chat_session = c]]
    /\ UNCHANGED <<lock, backendCalls, chanLog, restarts, cancels, cancelView, cancelEarly, abortRet, seqAtCancel>>

\* the same request from a client that goes away before it reads the stream
StreamNewAbandoned(c) ==
    /\ nextId <= MaxMsgs
    /\ db' = [db EXCEPT ![nextId] = NewRow(c)]
    /\ nextId' = nextId + 1
    /\ StartGenerationTask(nextId, c)
    /\ UNCHANGED <<lock, sub, backendCalls, chanLog, restarts, cancels, cancelView, cancelEarly, abortRet, seqAtCancel>>

\* "with _generation_tasks_lock: task = _generation_tasks.get(...)" of the
\* new-message branch
SubLookup(s) ==
    /\ sub[s].pc = "lookup"
    /\ LockFree
    /\ sub' = [sub EXCEPT ![s].hasTask = sub[s].mid \in generation_tasks,
                          ![s].pc = "read_db"]
    /\ UNCHANGED <<generation_tasks, task, lock, db, nextId, clock, worker,
                   threadsStarted, backendCalls, chanLog, startRet, restarts,
                   cancels, cancelView, cancelEarly, abortRet, seqAtCancel>>

\* { session_id, assistant_message_id, last_seq }: the registry lookup of the
\* subscribe branch
StreamResume(s, c, m, n) ==
    /\ NextRequest(s)
    /\ LockFree
    /\ sub' = [sub EXCEPT ![s] = [NoSub EXCEPT !.pc = "read_db", !.kind = "resume",
                                              !.mid = m, !.chat_session = c,
                                              !.client_last_seq = n,
                                              !.hasTask = m \in generation_tasks,
                                              !.lateLookup = worker[m].pc = "ended"]]
    /\ UNCHANGED <<generation_tasks, task, lock, db, nextId, clock, worker,
                   threadsStarted, backendCalls, chanLog, startRet, restarts,
                   cancels, cancelView, cancelEarly, abortRet, seqAtCancel>>

\* the content of the row as the handler reads it ("msg.content or ''")
ReadContent(m) == IF db[m].exists THEN db[m].content ELSE ""

\* the subscribe branch with the "'' if not task" of the new-message branch
SnapshotContentEmptyWithoutTask(kind, hasTask, m) ==
    IF ~hasTask THEN "" ELSE ReadContent(m)

\* the content read that feeds initial_chunk
SnapshotContent(kind, hasTask, m) ==
    IF kind = "new" /\ ~hasTask THEN "" ELSE ReadContent(m)

SubReadContent(s) ==
    /\ sub[s].pc = "read_db"
    /\ sub' = [sub EXCEPT ![s].content = SnapshotContent(sub[s].kind, sub[s].hasTask, sub[s].mid),
                          ![s].pc = "initial"]
    /\ UNCHANGED <<generation_tasks, task, lock, db, nextId, clock, worker,
                   threadsStarted, backendCalls, chanLog, startRet, restarts,
                   cancels, cancelView, cancelEarly, abortRet, seqAtCancel>>

\* the read of task['last_seq'] and the yield of the initial event
SubInitial(s) ==
    /\ sub[s].pc = "initial"
    /\ LET m == sub[s].mid
           n == IF sub[s].hasTask THEN task[m].last_seq ELSE 0
       IN sub' = [sub EXCEPT ![s] = [Emit(s, InitialEvent(m, sub[s].content, n))
                                       EXCEPT !.pc = IF sub[s].hasTask THEN "loop" ELSE "notask"]]
    /\ UNCHANGED <<generation_tasks, task, lock, db, nextId, clock, worker,
                   threadsStarted, backendCalls, chanLog, startRet, restarts,
                   cancels, cancelView, cancelEarly, abortRet, seqAtCancel>>

\* "if not task": the done event without a queue
SubNoTask(s) ==
    /\ sub[s].pc = "notask"
    /\ sub' = [sub EXCEPT ![s] = [Emit(s, DoneEvent(sub[s].mid, 0)) EXCEPT !.pc = "ended"]]
    /\ UNCHANGED <<generation_tasks, task, lock, db, nextId, clock, worker,
                   threadsStarted, backendCalls, chanLog, startRet, restarts,
                   cancels, cancelView, cancelEarly, abortRet, seqAtCancel>>

\* gen_subscribe without its filter
SkippedNever(kind, client_last_seq, item) == FALSE

\* "if seq <= client_last_seq: continue" of gen_subscribe; gen_new has no filter
Skipped(kind, client_last_seq, item) ==
    kind = "resume" /\ item.seq <= client_last_seq

\* the item handling without the "break" after the terminal event
HandleWithoutBreak(s, item) ==
    IF IsChunk(item)
      THEN Emit(s, ChunkEvent(sub[s].mid, item))
      ELSE Emit(s, ForwardDone(sub[s].mid, item))

\* what a subscriber does with an item it took from the queue
Handle(s, item) ==
    IF IsChunk(item)
      THEN IF Skipped(sub[s].kind, sub[s].client_last_seq, item)
             THEN sub[s]
             ELSE Emit(s, ChunkEvent(sub[s].mid, item))
      ELSE IF IsDone(item)
             THEN [Emit(s, ForwardDone(sub[s].mid, item)) EXCEPT !.pc = "ended"]
             ELSE sub[s]

\* a q.get whose reader would set the done flag when it takes a terminal item
SubGetMarksDone(s) ==
    /\ sub[s].pc = "loop"
    /\ task[sub[s].mid].queue # <<>>
    /\ task' = [task EXCEPT ![sub[s].mid].queue = Tail(@),
                            ![sub[s].mid].done = @ \/ IsDone(Head(task[sub[s].mid].queue))]
    /\ sub' = [sub EXCEPT ![s] = Handle(s, Head(task[sub[s].mid].queue))]
    /\ UNCHANGED <<generation_tasks, lock, db, nextId, clock, worker,
                   threadsStarted, backendCalls, chanLog, startRet, restarts,
                   cancels, cancelView, cancelEarly, abortRet, seqAtCancel>>

\* q.get(timeout=_SSE_WAIT_TIMEOUT) returns an item
SubGet(s) ==
    /\ sub[s].pc = "loop"
    /\ task[sub[s].mid].queue # <<>>
    /\ task' = [task EXCEPT ![sub[s].mid].queue = Tail(@)]
    /\ sub' = [sub EXCEPT ![s] = Handle(s, Head(task[sub[s].mid].queue))]
    /\ UNCHANGED <<generation_tasks, lock, db, nextId, clock, worker,
                   threadsStarted, backendCalls, chanLog, startRet, restarts,
                   cancels, cancelView, cancelEarly, abortRet, seqAtCancel>>

\* the Empty handler without its test of the done flag: the loop just goes on
SubTimeoutIgnoresDone(s) ==
    /\ sub[s].pc = "loop"
    /\ task[sub[s].mid].queue = <<>>
    /\ UNCHANGED vars

\* q.get raises queue.Empty: done is reported if the flag is set, else the
\* loop goes on
SubTimeout(s) ==
    /\ sub[s].pc = "loop"
    /\ task[sub[s].mid].queue = <<>>
    /\ sub' = IF task[sub[s].mid].done
                THEN [sub EXCEPT ![s] = [Emit(s, DoneEvent(sub[s].mid, task[sub[s].mid].last_seq))
                                           EXCEPT !.pc = "ended"]]
                ELSE sub
    /\ UNCHANGED <<generation_tasks, task, lock, db, nextId, clock, worker,
                   threadsStarted, backendCalls, chanLog, startRet, restarts,
                   cancels, cancelView, cancelEarly, abortRet, seqAtCancel>>

\* the client goes away: GeneratorExit ends the generator
SubDisconnect(s) ==
    /\ sub[s].pc \in {"loop", "notask"}
    /\ sub' = [sub EXCEPT ![s] = [NoSub EXCEPT !.pc = "closed"]]
    /\ UNCHANGED <<generation_tasks, task, lock, db, nextId, clock, worker,
                   threadsStarted, backendCalls, chanLog, startRet, restarts,
                   cancels, cancelView, cancelEarly, abortRet, seqAtCancel>>

\* the steps of a request whose client stays connected
Subscriber(s) ==
    \/ \E c \in Sessions : StreamNew(s, c)
    \/ SubLookup(s)
    \/ \E c \in Sessions, m \in MsgIds, n \in 0..MaxLastSeq : StreamResume(s, c, m, n)
    \/ SubReadContent(s)
    \/ SubInitial(s)
    \/ SubNoTask(s)
    \/ SubGet(s)
    \/ SubTimeout(s)

(* ----------------------- abort_stream_generation ------------------------ *)
\* the candidate list without its "not done" filter
CandidatesIncludingDone(c) ==
    {m \in generation_tasks : task[m].chat_session_id = c}

\* the still-active tasks of a chat session
Candidates(c) ==
    {m \in generation_tasks : task[m].chat_session_id = c /\ ~task[m].done}

\* candidates.sort(key=started_at, reverse=True); candidates[0]
Latest(cands) ==
    CHOOSE m \in cands : \A k \in cands : task[k].started_at <= task[m].started_at

\* abort_stream_generation without the ownership test of the named task
AbortTargetAnyOwner(c, a) ==
    IF a # 0
      THEN IF a \in generation_tasks THEN a ELSE 0
      ELSE IF Candidates(c) = {} THEN 0 ELSE Latest(Candidates(c))

\* the message id an abort request is about; 0 when the request is answered
\* with 404 (a is 0 when the request names no assistant_message_id)
AbortTarget(c, a) ==
    IF a # 0
      THEN IF a \in generation_tasks /\ task[a].chat_session_id = c THEN a ELSE 0
      ELSE IF Candidates(c) = {} THEN 0 ELSE Latest(Candidates(c))

\* the subscribers blocked in q.get on the queue of task m
Blocked(m) == {s \in Subs : sub[s].pc = "loop" /\ sub[s].mid = m}

\* the worker is inside its "for chunk in ..." loop, before any terminal put
InLoop(w) == w.pc \in {"start", "iter", "persist", "publish", "update"}

\* an accepted abort, under the lock: the flag is set and the terminal item
\* is put; on Full the request keeps the lock for its put with a timeout
AbortStream(c, a) ==
    LET m == AbortTarget(c, a)
        item == CancelledItem(task[m].last_seq)
    IN /\ LockFree
       /\ m # 0
       /\ cancels[m] < MaxCancels
       /\ task' = [task EXCEPT ![m].cancelled = TRUE,
                               ![m].queue = QueuePut(@, item)]
       /\ chanLog' = [chanLog EXCEPT ![m] = Logged(@, task[m].queue, item)]
       /\ lock' = IF QueueFull(task[m].queue)
                    THEN [holder |-> "abort", mid |-> m]
                    ELSE lock
       /\ cancels' = [cancels EXCEPT ![m] = @ + 1]
       /\ cancelView' = [cancelView EXCEPT ![m] = Blocked(m)]
       /\ cancelEarly' = [cancelEarly EXCEPT ![m] = InLoop(worker[m])]
       /\ abortRet' = [status |-> 200, assistant_message_id |-> m]
       /\ seqAtCancel' = [seqAtCancel EXCEPT ![m] = worker[m].seq]
       /\ UNCHANGED <<generation_tasks, db, nextId, clock, worker, sub,
                      threadsStarted, backendCalls, startRet, restarts>>

\* q.put(..., timeout=1.0) of the abort request, still under the lock
AbortPutWait ==
    LET m == lock.mid
        item == CancelledItem(task[m].last_seq)
    IN /\ lock.holder = "abort"
       /\ task' = [task EXCEPT ![m].queue = QueuePut(@, item)]
       /\ chanLog' = [chanLog EXCEPT ![m] = Logged(@, task[m].queue, item)]
       /\ lock' = [holder |-> "none", mid |-> 0]
       /\ UNCHANGED <<generation_tasks, db, nextId, clock, worker, sub,
                      threadsStarted, backendCalls, startRet, restarts, cancels,
                      cancelView, cancelEarly, abortRet, seqAtCancel>>

\* a session_id for which the ChatSession query of the user returns nothing
UnknownSession == 0

\* the chat sessions of the user: those that start generations and one that
\* never does
OwnSessions == 1..(MaxSessions + 1)

\* the session_id values an abort request may carry
AbortSessions == OwnSessions \cup {UnknownSession}

\* an abort request that is answered with 404: the session is not found, or
\* (under the lock) the named task is missing or belongs to another session,
\* or no id is named and the session has no active task
AbortNotFound(c, a) ==
    /\ c # UnknownSession => LockFree
    /\ c = UnknownSession \/ AbortTarget(c, a) = 0
    /\ abortRet' = [status |-> 404, assistant_message_id |-> 0]
    /\ UNCHANGED <<generation_tasks, task, lock, db, nextId, clock, worker, sub,
                   threadsStarted, backendCalls, chanLog, startRet, restarts,
                   cancels, cancelView, cancelEarly, seqAtCancel>>

Abort ==
    \/ \E c \in Sessions, a \in MsgIds \cup {0} : AbortStream(c, a)
    \/ AbortPutWait

\* one more start_generation_task call for a message id whose record exists
StartAgain(m) ==
    /\ m \in generation_tasks
    /\ restarts[m] < MaxRestarts
    /\ StartGenerationTask(m, task[m].chat_session_id)
    /\ restarts' = [restarts EXCEPT ![m] = @ + 1]
    /\ UNCHANGED <<lock, db, nextId, sub, backendCalls, chanLog, cancels,
                   cancelView, cancelEarly, abortRet, seqAtCancel>>

(* -------------------- get_active_streams_for_session -------------------- *)
\* the registered tasks of a chat session, done or not
TasksOfSession(c) == {m \in generation_tasks : task[m].chat_session_id = c}

\* "with _generation_tasks_lock:" of the introspection request; the loop over
\* the registry runs inside it
ActiveStreamsLock(c) ==
    /\ LockFree
    /\ TasksOfSession(c) # {}
    /\ lock' = [holder |-> "active", mid |-> CHOOSE m \in TasksOfSession(c) : TRUE]
    /\ UNCHANGED <<generation_tasks, task, db, nextId, clock, worker, sub,
                   threadsStarted, backendCalls, chanLog, startRet, restarts,
                   cancels, cancelView, cancelEarly, abortRet, seqAtCancel>>

\* the row reads of the loop (db_sess.query(ChatMessage).get(mid)) and the
\* end of the with block
ActiveStreamsRead ==
    /\ lock.holder = "active"
    /\ lock' = [holder |-> "none", mid |-> 0]
    /\ UNCHANGED <<generation_tasks, task, db, nextId, clock, worker, sub,
                   threadsStarted, backendCalls, chanLog, startRet, restarts,
                   cancels, cancelView, cancelEarly, abortRet, seqAtCancel>>

(* --------------------------- specifications ---------------------------- *)
\* one subscriber at a time; the backend may yield empty increments and
\* fail, and the commits may fail
Next ==
    \/ \E m \in MsgIds : Worker(m)
    \/ \E m \in MsgIds : WorkerEmptyIncrement(m)
    \/ \E m \in MsgIds : WorkerBackendError(m)
    \/ \E m \in MsgIds : PersistFails(m)
    \/ \E c \in Sessions : StreamNewAbandoned(c)
    \/ Subscriber(1)
    \/ SubDisconnect(1)
    \/ Abort

Spec == Init /\ [][Next]_vars

\* several subscribers on one queue
NextFanout ==
    \/ \E m \in MsgIds : Worker(m)
    \/ \E s \in Subs : Subscriber(s)
    \/ Abort

SpecFanout == Init /\ [][NextFanout]_vars

\* repeated start requests, abort requests of every kind and introspection
NextStart ==
    \/ \E m \in MsgIds : Worker(m)
    \/ \E c \in Sessions : StreamNewAbandoned(c)
    \/ \E m \in MsgIds : StartAgain(m)
    \/ \E c \in AbortSessions, a \in MsgIds \cup {0} : AbortStream(c, a)
    \/ \E c \in AbortSessions, a \in MsgIds \cup {0} : AbortNotFound(c, a)
    \/ AbortPutWait
    \/ \E c \in OwnSessions : ActiveStreamsLock(c)
    \/ ActiveStreamsRead

SpecStart == Init /\ [][NextStart]_vars

\* the steps of a request after it has arrived
SubscriberStep(s) ==
    \/ SubLookup(s)
    \/ SubReadContent(s)
    \/ SubInitial(s)
    \/ SubNoTask(s)
    \/ SubGet(s)
    \/ SubTimeout(s)

\* several subscribers that stay connected, a backend that may fail, no
\* abort requests; each thread that can take a step eventually takes one (the
\* worker thread, the cleanup thread, the request threads: q.get returns
\* after at most _SSE_WAIT_TIMEOUT seconds)
NextLive ==
    \/ \E m \in MsgIds : WorkerUncancelled(m)
    \/ \E m \in MsgIds : WorkerBackendError(m)
    \/ \E s \in Subs : Subscriber(s)

SpecLive ==
    /\ Init /\ [][NextLive]_vars
    /\ \A m \in MsgIds : WF_vars(WorkerUncancelled(m) \/ WorkerBackendError(m))
    /\ \A s \in Subs : WF_vars(SubscriberStep(s))

\* every exit of the worker (exhaustion, also reached by an exception raised
\* in the loop; cancellation; backend error; failing commits), with abort
\* requests and no subscriber; the worker thread, its cleanup thread and an
\* abort request inside its timed put each eventually take their step
NextEvict ==
    \/ \E m \in MsgIds : Worker(m)
    \/ \E m \in MsgIds : WorkerBackendError(m)
    \/ \E m \in MsgIds : PersistFails(m)
    \/ \E c \in Sessions : StreamNewAbandoned(c)
    \/ Abort

SpecEvict ==
    /\ Init /\ [][NextEvict]_vars
    /\ \A m \in MsgIds : WF_vars(Worker(m) \/ WorkerBackendError(m) \/ PersistFails(m))
    /\ WF_vars(AbortPutWait)

\* every operation that reads or writes a task record: the worker, one
\* start or resume request, abort requests and introspection requests
NextFrame ==
    \/ \E m \in MsgIds : Worker(m)
    \/ Subscriber(1)
    \/ Abort
    \/ \E c \in OwnSessions : ActiveStreamsLock(c)
    \/ ActiveStreamsRead

SpecFrame == Init /\ [][NextFrame]_vars

\* the choice of the target of an abort request that names only its session:
\* the registry holds any tasks of the user's sessions, started in any order,
\* done or not, with an empty or a full queue
PickIds == 1..MaxPickTasks

FullQueue == [i \in 1..QueueMaxSize |-> ChunkItem(ChunkText(i), i)]

PickedTask(c, dn, full, at) ==
    [queue |-> IF full THEN FullQueue ELSE <<>>, done |-> dn,
     chat_session_id |-> c, started_at |-> at,
     last_seq |-> IF full THEN QueueMaxSize ELSE 0, cancelled |-> FALSE]

InitPick ==
    \E reg \in SUBSET PickIds, sess \in [PickIds -> OwnSessions],
       dn \in [PickIds -> BOOLEAN], full \in [PickIds -> BOOLEAN],
       at \in {f \in [PickIds -> PickIds] : \A i, j \in PickIds : i # j => f[i] # f[j]} :
       /\ generation_tasks = reg
       /\ task = [m \in PickIds |-> IF m \in reg
                                      THEN PickedTask(sess[m], dn[m], full[m], at[m])
                                      ELSE NoTask]
       /\ lock = [holder |-> "none", mid |-> 0]
       /\ db = [m \in PickIds |-> IF m \in reg THEN NewRow(sess[m]) ELSE NoRow]
       /\ nextId = MaxPickTasks + 1
       /\ clock = MaxPickTasks + 1
       /\ worker = [m \in PickIds |->
                      IF m \in reg
                        THEN [NoWorker EXCEPT !.pc = IF dn[m] THEN "cleanup" ELSE "iter"]
                        ELSE NoWorker]
       /\ sub = [s \in Subs |-> NoSub]
       /\ threadsStarted = [m \in PickIds |-> IF m \in reg THEN 1 ELSE 0]
       /\ backendCalls = [m \in PickIds |-> IF m \in reg THEN 1 ELSE 0]
       /\ chanLog = [m \in PickIds |-> IF m \in reg /\ full[m] THEN FullQueue ELSE <<>>]
       /\ startRet = [mid |-> 0, rec |-> NoTask]
       /\ restarts = [m \in PickIds |-> 0]
       /\ cancels = [m \in PickIds |-> 0]
       /\ cancelView = [m \in PickIds |-> {}]
       /\ cancelEarly = [m \in PickIds |-> FALSE]
       /\ abortRet = NoAnswer
       /\ seqAtCancel = [m \in PickIds |-> 0]

NextPick ==
    \/ \E c \in AbortSessions : AbortStream(c, 0)
    \/ \E c \in AbortSessions : AbortNotFound(c, 0)
    \/ AbortPutWait

SpecPick == InitPick /\ [][NextPick]_vars

(* ------------------------------- claims -------------------------------- *)
IsChunkEvent(e) == "seq" \in DOMAIN e

IsDoneEvent(e) == "done" \in DOMAIN e

IsInitialEvent(e) == "initial" \in DOMAIN e

\* the sequence numbers of the chunk events a request has emitted, in order
Forwarded(s) ==
    LET ch == SelectSeq(sub[s].events, IsChunkEvent)
    IN [i \in 1..Len(ch) |-> ch[i].seq]

Range(f) == {f[i] : i \in DOMAIN f}

\* the terminal items among the items put on a queue
DonePositions(log) == {i \in 1..Len(log) : IsDone(log[i])}

ChunkPositions(log) == {i \in 1..Len(log) : IsChunk(log[i])}

\* C1: while a record exists, a repeated start_generation_task call starts no
\* thread and returns the record as it is (queue, flags, last_seq); a message
\* id never has more than one worker thread or more than one backend call,
\* and a worker that is past its start has made exactly one.
C1_OneWorkerPerIdentity ==
    /\ [](\A m \in MsgIds :
            /\ threadsStarted[m] <= 1
            /\ backendCalls[m] <= 1
            /\ (m \in generation_tasks => threadsStarted[m] = 1)
            /\ (worker[m].pc \notin {"none", "start"} => backendCalls[m] = 1))
    /\ [][\A m \in MsgIds :
            (m \in generation_tasks /\ restarts'[m] # restarts[m]) =>
               /\ task'[m] = task[m]
               /\ startRet' = [mid |-> m, rec |-> task[m]]
               /\ worker' = worker
               /\ threadsStarted' = threadsStarted
               /\ generation_tasks' = generation_tasks]_vars

\* a repeated start has returned the record of a task that is streaming
C1_Witness ==
    \E m \in MsgIds :
       /\ restarts[m] >= 2
       /\ startRet.mid = m
       /\ startRet.rec.last_seq >= 1
       /\ startRet.rec.queue # <<>>
       /\ threadsStarted[m] = 1
       /\ backendCalls[m] = 1

\* C2: the sequence numbers a subscriber forwards are strictly increasing, and
\* a resume with last_seq = N forwards no chunk with seq <= N.
C2_ForwardedIncreasing ==
    \A s \in Subs :
       /\ \A i, j \in DOMAIN Forwarded(s) : i < j => Forwarded(s)[i] < Forwarded(s)[j]
       /\ sub[s].kind = "resume" =>
             \A i \in DOMAIN Forwarded(s) : Forwarded(s)[i] > sub[s].client_last_seq

\* a resume with last_seq = 1 took chunk 1 from the queue (no other request
\* forwarded it), dropped it and forwarded chunk 2, while another subscriber
\* of the same task forwarded nothing or something else
C2_Witness ==
    \E s \in Subs, m \in MsgIds :
       /\ sub[s].kind = "resume" /\ sub[s].mid = m
       /\ sub[s].client_last_seq = 1
       /\ Forwarded(s) = <<2>>
       /\ \E i \in ChunkPositions(chanLog[m]) : chanLog[m][i].seq = 1
       /\ \A t \in Subs \ {s} : 1 \notin Range(Forwarded(t))

\* C3: at most one terminal item is ever put on a task's queue, exactly one
\* once the worker has finished, and no chunk item is put after it.
C3_OneTerminalItem ==
    \A m \in MsgIds :
       /\ Cardinality(DonePositions(chanLog[m])) <= 1
       /\ worker[m].pc \in {"cleanup", "ended"} =>
             Cardinality(DonePositions(chanLog[m])) = 1
       /\ \A i \in DonePositions(chanLog[m]), j \in ChunkPositions(chanLog[m]) : j < i

\* the last event a request has emitted
LastEvent(s) == sub[s].events[Len(sub[s].events)]

\* the seqs of the chunk items that are on the queue of task m
QueuedSeqs(m) ==
    {task[m].queue[i].seq : i \in {j \in 1..Len(task[m].queue) : IsChunk(task[m].queue[j])}}

\* the seqs of the chunk items that were put on the queue of task m
PublishedSeqs(m) == {chanLog[m][i].seq : i \in ChunkPositions(chanLog[m])}

\* C4: after an abort of an active task with several subscribers blocked on
\* its queue, each of them gets a terminal event without a further worker
\* step: so in no state is one of them left on an empty queue of a task
\* that is cancelled and not done (there only the worker can end its wait).
C4_CancelWakesEveryBlocked ==
    \A m \in MsgIds :
       ( /\ Cardinality(cancelView[m]) >= 2
         /\ task[m].cancelled /\ ~task[m].done
         /\ task[m].queue = <<>>
         /\ LockFree )
       => \A s \in cancelView[m] : sub[s].pc = "ended"

\* C5: the terminal event a subscriber that was attached at the abort
\* receives carries cancelled = true.
C5_TerminalCarriesCancelled ==
    \A m \in MsgIds : \A s \in cancelView[m] :
       (sub[s].pc = "ended" /\ sub[s].mid = m) =>
          IF "cancelled" \in DOMAIN LastEvent(s)
            THEN LastEvent(s).cancelled = TRUE
            ELSE FALSE

\* C6: every chunk published while a subscriber is attached, with a seq above
\* its cursor, is forwarded to it whatever the other subscribers read: a
\* chunk whose seq is at least two above the last_seq of the subscriber's
\* snapshot was published after it attached, so once such a chunk has left
\* the queue the subscriber, if still attached, has forwarded it.
C6_FanOut ==
    \A s \in Subs :
       sub[s].pc = "loop" =>
          \A k \in PublishedSeqs(sub[s].mid) \ QueuedSeqs(sub[s].mid) :
             ( /\ k > sub[s].client_last_seq
               /\ k >= sub[s].events[1].last_seq + 2 )
             => k \in Range(Forwarded(s))

\* the number of chunks whose text the snapshot of a request contains
SnapshotChunks(s) ==
    LET acc == worker[sub[s].mid].accumulated
        c == sub[s].events[1].initial_chunk
    IN CHOOSE j \in 0..Len(acc) :
          c \in {Join(SubSeq(acc, 1, j)), CancelledContent(SubSeq(acc, 1, j))}

\* C7: a resume forwards no chunk whose text its snapshot already contains.
C7_NoDuplicateAfterSnapshot ==
    \A s \in Subs :
       (sub[s].kind = "resume" /\ sub[s].events # <<>>) =>
          \A k \in Range(Forwarded(s)) : k > SnapshotChunks(s)

\* what the worker of task m last tried to commit
FinalContent(m) ==
    IF worker[m].sawCancel
      THEN CancelledContent(worker[m].accumulated)
      ELSE Join(worker[m].accumulated)

\* C8: once a task is evicted, the durable content is the concatenation of
\* every chunk its worker produced, followed by the cancellation marker if
\* the worker stopped on the cancellation.
C8_DurableContentAtEviction ==
    \A m \in MsgIds :
       worker[m].pc = "ended" => db[m].content = FinalContent(m)

\* C9: a task is evicted only after the completion flag is set, a terminal
\* item has been put on its queue and the final content is durable.
C9_EvictionAfterTerminalAndDurability ==
    \A m \in MsgIds :
       (worker[m].pc = "ended" /\ m \notin generation_tasks) =>
          /\ task[m].done
          /\ DonePositions(chanLog[m]) # {}
          /\ Join(worker[m].accumulated) = "" \/ db[m].content # ""
          /\ db[m].content \in {Join(worker[m].accumulated),
                                CancelledContent(worker[m].accumulated)}

\* C10: a resume that finds its task evicted never waits on a queue and
\* emits the snapshot with the durable content, then the terminal event.
C10_ResumeAfterEviction ==
    \A s \in Subs :
       (sub[s].kind = "resume" /\ sub[s].lateLookup) =>
          /\ ~sub[s].hasTask
          /\ sub[s].pc # "loop"
          /\ sub[s].pc = "notask" =>
                sub[s].events = <<InitialEvent(sub[s].mid, db[sub[s].mid].content, 0)>>
          /\ sub[s].pc = "ended" =>
                sub[s].events = <<InitialEvent(sub[s].mid, db[sub[s].mid].content, 0),
                                  DoneEvent(sub[s].mid, 0)>>

\* a resume after the eviction has ended with a snapshot of two chunks
C10_Witness ==
    \E s \in Subs :
       /\ sub[s].kind = "resume" /\ sub[s].lateLookup /\ sub[s].pc = "ended"
       /\ Len(worker[sub[s].mid].accumulated) >= 2
       /\ sub[s].events[1].initial_chunk = Join(worker[sub[s].mid].accumulated)


\* the worker thread of task m has run to its end
Stopped(m) == worker[m].pc \in {"cleanup", "ended"}

\* the contents that end with the cancellation marker, for a buffer acc
MarkedContents(acc) == {CancelledContent(SubSeq(acc, 1, j)) : j \in 0..Len(acc)}

\* C11: when an abort was accepted while the worker was still in its loop,
\* the durable content ends with the cancellation marker once the worker has
\* stopped, also when the backend was exhausted before it yielded another
\* non-empty increment.
C11_CancelMarked ==
    \A m \in MsgIds :
       (cancelEarly[m] /\ Stopped(m)) => db[m].content \in MarkedContents(worker[m].accumulated)

\* C12: when an abort was accepted while the worker was in its loop and the
\* worker then saw the flag, the terminal event a subscriber of the task
\* received has final_seq equal to the worker's seq at that moment, which is
\* the number of chunks in the durable content that ends with the marker.
C12_FinalSeqAtObservation ==
    \A m \in MsgIds : \A s \in Subs :
       ( /\ cancelEarly[m] /\ worker[m].sawCancel
         /\ sub[s].mid = m /\ sub[s].hasTask /\ sub[s].pc = "ended" )
       => LastEvent(s).final_seq = worker[m].seq

\* the worker is past the puts of its normal exit
PastFinalPut(m) == worker[m].pc \in {"final_update", "finally", "cleanup", "ended"}

C14_UnknownResumeNotFound ==
    \A s \in Subs :
       (sub[s].kind = "resume" /\ ~sub[s].hasTask /\ ~db[sub[s].mid].exists) =>
          sub[s].events = <<>>

\* the four not-found cases of an abort request {session_id: c,
\* assistant_message_id: a}, as the claim lists them
NotFoundCase(c, a) ==
    \/ c = UnknownSession
    \/ a # 0 /\ a \notin generation_tasks
    \/ a # 0 /\ a \in generation_tasks /\ task[a].chat_session_id # c
    \/ a = 0 /\ ~\E m \in generation_tasks : task[m].chat_session_id = c /\ ~task[m].done

\* C15: an abort request in one of the four not-found cases is answered with
\* 404 and is never carried out as an accepted abort, and a request answered
\* with 404 leaves every task record (flags, queue), the registry and the
\* record of what was put on the queues unchanged.
C15_AbortNotFound ==
    [][ /\ \A c \in AbortSessions, a \in MsgIds \cup {0} :
             NotFoundCase(c, a) =>
                /\ c = UnknownSession \/ AbortTarget(c, a) = 0
                /\ ~AbortStream(c, a)
        /\ (abortRet'.status = 404 /\ abortRet' # abortRet) =>
              /\ task' = task
              /\ generation_tasks' = generation_tasks
              /\ chanLog' = chanLog
              /\ cancels' = cancels
              /\ lock' = lock ]_vars

\* an abort request was answered with 404 after an accepted abort, while the
\* cancelled task was registered with items on its queue
C15_Witness ==
    \E m \in generation_tasks :
       /\ abortRet.status = 404
       /\ cancels[m] = 1 /\ task[m].cancelled
       /\ Len(task[m].queue) >= 2

\* request s is subscribed to a registered task
Attached(s) == sub[s].hasTask /\ sub[s].pc = "loop"

\* request s has forwarded its terminal event and ended
Terminated(s) == sub[s].pc = "ended" /\ IsDoneEvent(LastEvent(s))

\* C16: every subscriber attached to a task eventually forwards a terminal
\* event and ends, also when it never takes a terminal item from the queue;
\* and while the queue is empty and the task is not done, nothing is emitted
\* and the subscription does not end.
C16_EverySubscriberEnds ==
    /\ \A s \in Subs : Attached(s) ~> Terminated(s)
    /\ [][\A s \in Subs :
            (Attached(s) /\ task[sub[s].mid].queue = <<>> /\ ~task[sub[s].mid].done)
               => sub'[s] = sub[s]]_vars

\* both requests were subscribed to the same task and both have ended with a
\* terminal event, although only one terminal item was ever put on the queue
C16_Witness ==
    \E m \in MsgIds :
       /\ Cardinality(DonePositions(chanLog[m])) = 1
       /\ \A s \in Subs : sub[s].mid = m /\ sub[s].hasTask /\ Terminated(s)

\* the events of request s so far are a prefix of: one initial event, chunk
\* events, one terminal event; the terminal event is there exactly when the
\* request has ended
WellFormedEvents(s) ==
    LET ev == sub[s].events
    IN /\ sub[s].pc \in {"idle", "lookup", "read_db", "initial", "closed"} => ev = <<>>
       /\ sub[s].pc \in {"notask", "loop", "ended"} => (ev # <<>> /\ IsInitialEvent(ev[1]))
       /\ \A i \in 2..Len(ev) :
             /\ ~IsInitialEvent(ev[i])
             /\ IsChunkEvent(ev[i]) \/ IsDoneEvent(ev[i])
       /\ \A i \in 1..Len(ev) : IsDoneEvent(ev[i]) => (i = Len(ev) /\ sub[s].pc = "ended")
       /\ sub[s].pc = "ended" => IsDoneEvent(LastEvent(s))

\* C17: a subscription emits one initial event, then chunk events, then
\* exactly one terminal event and nothing after it; every request that has
\* arrived gets to its terminal event.
C17_EventOrder ==
    /\ [](\A s \in Subs : WellFormedEvents(s))
    /\ \A s \in Subs : (sub[s].pc # "idle") ~> Terminated(s)

\* a start and a resume have each ended with initial, chunks, terminal
C17_Witness ==
    \E s, t \in Subs :
       /\ sub[s].kind = "new" /\ sub[t].kind = "resume"
       /\ Terminated(s) /\ Terminated(t)
       /\ Len(sub[s].events) >= 3 /\ Len(sub[t].events) >= 3

\* C18: the chunks of a worker are numbered 1, 2, 3, ... without gaps: the
\* i-th non-empty increment gets seq i and is published with that seq and
\* its own non-empty text; an empty increment changes neither seq nor the
\* buffer and is followed by no commit and no put.
C18_ChunkNumbering ==
    /\ [](\A m \in MsgIds :
            LET acc == worker[m].accumulated
                log == chanLog[m]
            IN /\ worker[m].seq = Len(acc)
               /\ \A i \in 1..Len(acc) : acc[i] # "" /\ acc[i] \in {ChunkText(i), ErrorText}
               /\ \A i \in ChunkPositions(log) :
                     /\ log[i].seq \in 1..Len(acc)
                     /\ log[i].chunk = acc[log[i].seq]
               /\ \A i, j \in ChunkPositions(log) : i < j => log[i].seq < log[j].seq
               /\ worker[m].pc \in {"persist", "publish", "update"} => worker[m].seq >= 1)
    /\ [][\A m \in MsgIds :
            worker'[m].empties # worker[m].empties =>
               /\ worker'[m] = [worker[m] EXCEPT !.empties = @ + 1]
               /\ worker'[m].pc = "iter"
               /\ db' = db /\ task' = task /\ chanLog' = chanLog]_vars

\* the worker has skipped an empty increment and has put chunks 1 and 2 on
\* the queue
C18_Witness ==
    \E m \in MsgIds :
       /\ worker[m].empties = 1
       /\ worker[m].accumulated = <<"Hel", "lo">>
       /\ Len(chanLog[m]) = 2
       /\ chanLog[m][1] = ChunkItem("Hel", 1)
       /\ chanLog[m][2] = ChunkItem("lo", 2)

\* C19: a commit that raises does not stop the worker: it goes on to put the
\* chunk and to the next increment; and a progress or final commit that goes
\* through leaves the concatenation of every chunk produced so far as the
\* durable content, also when the commit of an earlier chunk had raised.
C19_FailedPersistIgnored ==
    [][\A m \in MsgIds :
          LET full == Join(worker[m].accumulated)
          IN /\ (worker[m].pc = "persist" /\ worker'[m] # worker[m]) =>
                   /\ worker'[m].pc = "publish"
                   /\ worker'[m].accumulated = worker[m].accumulated
                   /\ db'[m].content = IF db' = db THEN db[m].content ELSE full
                   /\ ~worker'[m].commitFailed => db'[m].content = full
             /\ (worker[m].pc = "final_persist" /\ worker'[m] # worker[m]) =>
                   (db' # db => db'[m].content = full)
             /\ (worker[m].pc = "publish" /\ worker'[m] # worker[m]) =>
                   /\ worker'[m].pc = "update"
                   /\ \/ QueueFull(task[m].queue)
                      \/ chanLog'[m] = Append(chanLog[m],
                                              ChunkItem(worker[m].accumulated[worker[m].seq],
                                                        worker[m].seq))
             /\ (worker[m].pc = "update" /\ worker'[m] # worker[m]) =>
                   worker'[m].pc \in {"iter", "cancel_persist"}]_vars

\* the commit of chunk 1 raised, chunk 1 was put all the same, and the commit
\* of chunk 2 has stored both chunks
C19_Witness ==
    \E m \in MsgIds :
       /\ worker[m].commitFailed
       /\ worker[m].pc = "publish" /\ worker[m].seq = 2
       /\ db[m].content = "Hello"
       /\ chanLog[m] = <<ChunkItem("Hel", 1)>>
       /\ \E s \in Subs : /\ sub[s].mid = m /\ sub[s].pc = "loop"
                          /\ sub[s].events[1].initial_chunk = ""
                          /\ sub[s].events[1].last_seq = 1

ProducedBeforeFailure(m) ==
    LET acc == worker[m].accumulated
    IN IF worker[m].backend = "failed" THEN SubSeq(acc, 1, Len(acc) - 1) ELSE acc

\* C21: when the backend fails after k chunks (no abort, no failing commit),
\* the durable content is the concatenation of those k chunks and nothing
\* else, the terminal item has final_seq k and no cancelled mark, and the
\* worker sets done and goes on to the eviction.
C21_BackendFailure ==
    \A m \in MsgIds :
       ( /\ worker[m].backend = "failed" /\ PastFinalPut(m)
         /\ cancels[m] = 0 /\ ~worker[m].commitFailed )
       => LET k == Len(ProducedBeforeFailure(m))
              log == chanLog[m]
          IN /\ db[m].content = Join(ProducedBeforeFailure(m))
             /\ \A i \in DonePositions(log) : log[i] = [done |-> TRUE, final_seq |-> k]
             /\ Stopped(m) => task[m].done

\* worker m is at a commit or at a put that waits for room
WorkerDoingIO(m) ==
    worker[m].pc \in {"persist", "cancel_persist", "final_persist",
                      "cancel_put_wait", "final_put_wait"}

\* C22: no thread reads or writes the store, or waits in a put, while it
\* holds the registry lock: a worker at a commit or at a waiting put does not
\* hold it, and neither the abort request (which keeps it only for its
\* waiting put) nor the introspection request (which keeps it only for its
\* row reads) ever holds it.
C22_NoIOUnderLock ==
    /\ \A m \in MsgIds :
          WorkerDoingIO(m) => ~(lock.holder = "worker" /\ lock.mid = m)
    /\ lock.holder \notin {"abort", "active"}

\* C23: after the flag of a task was set while its worker was in its loop,
\* the worker assigns at most one further seq: it is never back at the
\* backend with a seq above the one it had when the flag was set, it stops
\* by its cancel path at the first increment it completes after that, and
\* the terminal item it puts there (when the queue has room) is {done,
\* cancelled, final_seq: current seq}.
C23_StopsAtNextIncrement ==
    /\ [](\A m \in MsgIds :
            cancelEarly[m] =>
               /\ worker[m].seq <= seqAtCancel[m] + 1
               /\ worker[m].pc = "iter" => worker[m].seq = seqAtCancel[m]
               /\ worker[m].seq > seqAtCancel[m] =>
                     \/ worker[m].pc \in {"persist", "publish", "update"}
                     \/ worker[m].sawCancel)
    /\ [][\A m \in MsgIds :
            /\ (worker[m].pc = "update" /\ task[m].cancelled /\ worker'[m] # worker[m])
                  => worker'[m].pc = "cancel_persist"
            /\ (worker[m].pc \in {"cancel_put", "cancel_put_wait"}
                /\ worker'[m] # worker[m] /\ ~QueueFull(task[m].queue))
                  => chanLog'[m] = Append(chanLog[m], CancelledItem(worker[m].seq))]_vars

\* the flag was set while the worker waited for chunk 2; the worker then
\* produced chunk 2, stopped and put its terminal item with final_seq 2
C23_Witness ==
    \E m \in MsgIds :
       /\ cancelEarly[m] /\ seqAtCancel[m] = 1
       /\ worker[m].sawCancel /\ worker[m].seq = 2 /\ Stopped(m)
       /\ \E i \in DonePositions(chanLog[m]) :
             /\ chanLog[m][i] = CancelledItem(2)
             /\ \E j \in ChunkPositions(chanLog[m]) : j < i /\ chanLog[m][j].seq = 2

\* C24: an abort request that names only its session sets the flag of exactly
\* one task, the one started last among the registered tasks of that session
\* that are not done; it leaves every other record as it is, and the answer
\* names that task.
C24_AbortPicksLatestActive ==
    [][\A c \in AbortSessions :
          AbortStream(c, 0) =>
             LET m == abortRet'.assistant_message_id
             IN /\ abortRet'.status = 200
                /\ m \in generation_tasks
                /\ task[m].chat_session_id = c
                /\ ~task[m].done
                /\ \A k \in generation_tasks :
                      (task[k].chat_session_id = c /\ ~task[k].done)
                         => task[k].started_at <= task[m].started_at
                /\ task'[m].cancelled
                /\ \A k \in PickIds \ {m} : task'[k] = task[k]]_vars

\* the task named in the answer was chosen over an earlier active task of
\* its session and over a task started later that is done or of another session
C24_Witness ==
    \E m, k, j \in generation_tasks :
       /\ abortRet = [status |-> 200, assistant_message_id |-> m]
       /\ task[m].cancelled /\ ~task[k].cancelled /\ ~task[j].cancelled
       /\ task[k].chat_session_id = task[m].chat_session_id
       /\ ~task[k].done /\ task[k].started_at < task[m].started_at
       /\ task[j].started_at > task[m].started_at
       /\ task[j].done \/ task[j].chat_session_id # task[m].chat_session_id

\* C25: every registered task eventually leaves the registry, whichever exit
\* its worker takes; once its done flag is set it stays set, the worker
\* assigns no further seq and no further chunk is put on its queue.
C25_EveryTaskEvicted ==
    /\ \A m \in MsgIds : (m \in generation_tasks) ~> (m \notin generation_tasks)
    /\ [][\A m \in MsgIds :
            task[m].done =>
               /\ task'[m].done
               /\ worker'[m].seq = worker[m].seq
               /\ worker'[m].accumulated = worker[m].accumulated
               /\ ~InLoop(worker'[m])
               /\ ChunkPositions(chanLog'[m]) = ChunkPositions(chanLog[m])]_vars

\* a task whose worker stopped on the cancellation, after a commit had
\* raised, has left the registry
C25_Witness ==
    \E m \in MsgIds :
       /\ m \notin generation_tasks /\ task[m].done
       /\ worker[m].pc = "ended" /\ worker[m].sawCancel /\ worker[m].commitFailed
       /\ worker[m].seq = 2

\* the done flag, the cancelled flag and last_seq of a task record
Flags(t) == <<t.done, t.cancelled, t.last_seq>>

\* the introspection request takes or releases the lock
IntrospectionStep ==
    lock' # lock /\ (lock.holder = "active" \/ lock'.holder = "active")

\* C26: a step of a start or resume request or of an introspection request
\* leaves done, cancelled and last_seq of every record as they are; a step
\* of an abort request changes only the cancelled flag of the record named
\* in its answer and leaves last_seq, done and the rows alone; done and
\* last_seq of a record change only in a step of its own worker.
C26_WhoWritesTheRecord ==
    [][/\ (sub' # sub \/ IntrospectionStep)
            => \A m \in MsgIds : Flags(task'[m]) = Flags(task[m])
       /\ (cancels' # cancels \/ (lock.holder = "abort" /\ lock' # lock))
            => /\ db' = db
               /\ \A m \in MsgIds :
                     /\ task'[m].done = task[m].done
                     /\ task'[m].last_seq = task[m].last_seq
                     /\ task'[m].cancelled # task[m].cancelled
                           => m = abortRet'.assistant_message_id
       /\ \A m \in MsgIds :
             (task'[m].done # task[m].done \/ task'[m].last_seq # task[m].last_seq)
                => worker'[m] # worker[m] ]_vars

\* a request has read the queue of a cancelled task to its end while the
\* record keeps the last_seq its worker wrote, and introspection holds the lock
C26_Witness ==
    \E m \in MsgIds :
       /\ lock.holder = "active"
       /\ task[m].cancelled /\ task[m].last_seq = 2 /\ task[m].done
       /\ sub[1].mid = m /\ sub[1].pc = "ended" /\ sub[1].hasTask

\* C27: the initial event of a request that found its task carries as content
\* the concatenation of exactly the chunks 1..L, L being the last_seq of the
\* same event.
C27_SnapshotConsistent ==
    \A s \in Subs :
       (sub[s].hasTask /\ sub[s].events # <<>>) =>
          LET e == sub[s].events[1]
              acc == worker[sub[s].mid].accumulated
          IN /\ e.last_seq <= Len(acc)
             /\ e.initial_chunk = Join(SubSeq(acc, 1, e.last_seq))

\* a resume request: session_id is any conversation that passes the session
\* check of stream_message, assistant_message_id any id
ResumeRequest(s) ==
    \/ \E c \in OwnSessions, m \in MsgIds, n \in 0..MaxLastSeq : StreamResume(s, c, m, n)
    \/ SubReadContent(s)
    \/ SubInitial(s)
    \/ SubNoTask(s)
    \/ SubGet(s)
    \/ SubTimeout(s)

NextCross ==
    \/ \E m \in MsgIds : Worker(m)
    \/ \E c \in Sessions : StreamNewAbandoned(c)
    \/ ResumeRequest(1)
    \/ Abort

SpecCross == Init /\ [][NextCross]_vars

\* the event carries text of the response
CarriesContent(e) ==
    \/ "initial_chunk" \in DOMAIN e /\ e.initial_chunk # ""
    \/ "chunk" \in DOMAIN e

\* the task record or the row of m is of conversation c
BelongsTo(m, c) ==
    \/ m \in generation_tasks /\ task[m].chat_session_id = c
    \/ db[m].exists /\ db[m].session_id = c

\* C28: a resume request made for conversation c gets snapshot content and
\* chunks only of a response that belongs to c.
C28_ResumeOwnConversation ==
    \A s \in Subs :
       sub[s].kind = "resume" =>
          \A i \in DOMAIN sub[s].events :
             CarriesContent(sub[s].events[i]) => BelongsTo(sub[s].mid, sub[s].chat_session)

\* the contents that hold the chunks 1..n of a buffer acc: the concatenation
\* of a prefix of acc that reaches n, with or without the cancellation marker
HoldingContents(acc, n) ==
    UNION {{Join(SubSeq(acc, 1, k)), CancelledContent(SubSeq(acc, 1, k))} : k \in n..Len(acc)}

\* the sequence numbers of the chunks of m that were put on its queue or
\* forwarded to a request
OutSeqs(m) ==
    PublishedSeqs(m) \cup UNION {Range(Forwarded(s)) : s \in {t \in Subs : sub[t].mid = m}}

\* C29: as long as no commit of the worker has raised, the durable content
\* holds the chunks 1..n for every chunk n that is on the queue or was
\* forwarded to a request.
C29_PersistBeforePublish ==
    \A m \in MsgIds :
       ~worker[m].commitFailed =>
          \A n \in OutSeqs(m) : db[m].content \in HoldingContents(worker[m].accumulated, n)

\* chunk 2 has just been put and chunk 1 forwarded, every commit went through
C29_Witness ==
    \E m \in MsgIds :
       /\ ~worker[m].commitFailed
       /\ worker[m].pc = "update" /\ worker[m].seq = 2
       /\ 2 \in PublishedSeqs(m)
       /\ db[m].content = "Hello"
       /\ \E s \in Subs : sub[s].mid = m /\ 1 \in Range(Forwarded(s))

\* the request ends on a queue.Empty with the done flag set
TimeoutEnds(s) ==
    /\ sub[s].pc = "loop"
    /\ task[sub[s].mid].queue = <<>>
    /\ sub'[s].pc = "ended"

\* C30: the last_seq of a task record never decreases and is never above the
\* worker's seq; when the done flag is set it is the worker's final seq; and
\* the terminal event a request makes up on a read timeout carries that seq.
C30_LastSeqBounds ==
    /\ [][\A m \in MsgIds : task'[m].last_seq >= task[m].last_seq]_vars
    /\ [](\A m \in MsgIds :
            /\ task[m].last_seq <= worker[m].seq
            /\ task[m].done => task[m].last_seq = worker[m].seq)
    /\ [][\A s \in Subs :
            TimeoutEnds(s) =>
               LET e == sub'[s].events[Len(sub'[s].events)]
               IN IsDoneEvent(e) /\ e.final_seq = worker[sub[s].mid].seq]_vars

\* a request has ended with final_seq 2 on a task that is done with last_seq
\* 2 and whose queue never got a terminal item
C30_Witness ==
    \E s \in Subs :
       /\ sub[s].pc = "ended" /\ sub[s].hasTask
       /\ LET m == sub[s].mid
          IN /\ task[m].done /\ task[m].last_seq = 2 /\ worker[m].seq = 2
             /\ DonePositions(chanLog[m]) = {}
             /\ sub[s].events[Len(sub[s].events)] = DoneEvent(m, 2)

=============================================================================
